---- MODULE Spec2Model ----
(***************************************************************************)
(* Model of code_generation/ioctls.c: a C program whose main() prints the  *)
(* values of seven KVM ioctl request constants of <linux/kvm.h>, one per   *)
(* line, with printf("NAME = %lu\n", NAME).                                *)
(*                                                                         *)
(* Text is a sequence of tokens: the NAME of a line, " = ", one token per  *)
(* decimal digit, and "\n".  Integers wider than 31 bits are kept as       *)
(* sequences of 16-bit limbs, most significant limb first, so that the     *)
(* 32-bit request numbers and the 64-bit unsigned long keep their width.   *)
(***************************************************************************)
EXTENDS Integers, Sequences, FiniteSets, TLC

VARIABLES
    hdr,       \* the platform the program was built for: ioctl encoding, ABI, struct size
    argv,      \* the command line of the running process (main() declares no parameter)
    pc,        \* source line of the next statement of main (6..12), 13 = closing brace
    out,       \* the text standard output has received from this process, as tokens
    ret,       \* the value returned by the last printf call (what is left in the result register)
    attempts,  \* history: the printf calls made so far, [line, ok]
    exited,    \* the process has terminated
    exitCode,  \* its termination status, meaningful once exited
    run,       \* 1 in the first run of the program, 2 in the second
    prev       \* history: what the previous run of the program wrote, and its command line

vars == <<hdr, argv, pc, out, ret, attempts, exited, exitCode, run, prev>>

----------------------------------------------------------------------------
(* Bounds of the model *)

\* the command lines tried have 0 .. MaxArgs arguments after the program name
MaxArgs == 1

----------------------------------------------------------------------------
(* Fixed-width arithmetic on limbs *)

Base == 2^16

RECURSIVE BitOr(_, _)
\* a | b on naturals
BitOr(a, b) ==
    IF a = 0 THEN b
    ELSE IF b = 0 THEN a
    ELSE (IF a % 2 = 1 \/ b % 2 = 1 THEN 1 ELSE 0) + 2 * BitOr(a \div 2, b \div 2)

RECURSIVE DivLimbs(_, _)
\* long division of the limbs v (with incoming remainder r) by ten
DivLimbs(v, r) ==
    IF v = <<>> THEN [q |-> <<>>, r |-> r]
    ELSE LET cur  == r * Base + Head(v)
             rest == DivLimbs(Tail(v), cur % 10)
         IN  [q |-> <<cur \div 10>> \o rest.q, r |-> rest.r]

IsZero(v) == \A i \in 1 .. Len(v) : v[i] = 0

----------------------------------------------------------------------------
(* <linux/kvm.h> and the ioctl encoding it is built on (line 1 of ioctls.c) *)

IOC_NRBITS == 8

IOC_TYPEBITS == 8

\* _IOC_SIZESHIFT = _IOC_NRBITS + _IOC_TYPEBITS = 16: the size and direction
\* fields are the high 16-bit limb of a request number, type and nr the low one

\* the asm-generic/ioctl.h defaults
IocGeneric == [sizebits |-> 14, none |-> 0, write |-> 1, read |-> 2]

\* the values its #ifndef hooks take on the architectures that override them
\* (13 size bits, 3 direction bits)
IocOverride == [sizebits |-> 13, none |-> 1, write |-> 4, read |-> 2]

\* sizeof(struct kvm_userspace_memory_region)
SizeofMemoryRegion == 32

\* the C data model: the width of unsigned long, and what the upper half of a
\* 64-bit variadic slot holds when a 32-bit argument was passed in it
ILP32 == [longBits |-> 32, ext |-> "zero"]

LP64 == [longBits |-> 64, ext |-> "zero"]

LP64SignExtending == [longBits |-> 64, ext |-> "sign"]

\* the builds considered; sregs is sizeof(struct kvm_sregs), 312 bytes on x86 and
\* 0 where the structure is empty
Platforms ==
    { [ioc |-> IocGeneric,  abi |-> LP64,              sregs |-> 312],
      [ioc |-> IocGeneric,  abi |-> ILP32,             sregs |-> 312],
      [ioc |-> IocGeneric,  abi |-> LP64,              sregs |-> 0],
      [ioc |-> IocGeneric,  abi |-> LP64SignExtending, sregs |-> 0],
      [ioc |-> IocOverride, abi |-> LP64SignExtending, sregs |-> 0],
      [ioc |-> IocOverride, abi |-> LP64,              sregs |-> 312] }

\* _IOC(dir,type,nr,size): ((dir) << _IOC_DIRSHIFT) | ((type) << _IOC_TYPESHIFT) |
\* ((nr) << _IOC_NRSHIFT) | ((size) << _IOC_SIZESHIFT), with the C type of the result
IOC(dir, type, nr, size, ctype) ==
    [ctype |-> ctype,
     hi    |-> BitOr(dir * 2^(hdr.ioc.sizebits), size) % Base,
     lo    |-> BitOr(type * 2^IOC_NRBITS, nr) % Base]

\* _IO passes the int literal 0 as size: the result is an unsigned int
IO(type, nr) == IOC(hdr.ioc.none, type, nr, 0, "unsigned int")

\* _IOR and _IOW pass sizeof(t): the result is a size_t
IOR(type, nr, size) == IOC(hdr.ioc.read, type, nr, size, "size_t")

IOW(type, nr, size) == IOC(hdr.ioc.write, type, nr, size, "size_t")

KVMIO == 174

KVM_GET_API_VERSION == IO(KVMIO, 0)

KVM_CREATE_VM == IO(KVMIO, 1)

KVM_SET_USER_MEMORY_REGION == IOW(KVMIO, 70, SizeofMemoryRegion)

KVM_CREATE_VCPU == IO(KVMIO, 65)

KVM_GET_VCPU_MMAP_SIZE == IO(KVMIO, 4)

KVM_GET_SREGS == IOR(KVMIO, 131, hdr.sregs)

KVM_SET_SREGS == IOW(KVMIO, 132, hdr.sregs)

----------------------------------------------------------------------------
(* printf *)

DigitChar == <<"0", "1", "2", "3", "4", "5", "6", "7", "8", "9">>

Digits == {DigitChar[i] : i \in 1 .. 10}

\* (a variant that reads every argument as a signed 32-bit int widened to long)
ULongArgSignExtended(c) ==
    IF hdr.abi.longBits = 64 /\ c.hi >= Base \div 2
    THEN <<Base - 1, Base - 1, c.hi, c.lo>>
    ELSE <<0, 0, c.hi, c.lo>>

\* What va_arg(ap, unsigned long) reads for the constant c, as four limbs.
\* unsigned long is hdr.longBits wide.  A size_t has the width of unsigned
\* long.  An unsigned int read as a 64-bit unsigned long is a type mismatch:
\* the low half is the value, the high half is what the ABI left there, zeros
\* or copies of bit 31.
ULongArg(c) ==
    IF /\ hdr.abi.longBits = 64
       /\ c.ctype = "unsigned int"
       /\ hdr.abi.ext = "sign"
       /\ c.hi >= Base \div 2
    THEN <<Base - 1, Base - 1, c.hi, c.lo>>
    ELSE <<0, 0, c.hi, c.lo>>

RECURSIVE Decimal(_)
\* the %lu conversion: the decimal digits of the limbs v, most significant first
Decimal(v) ==
    LET d == DivLimbs(v, 0)
    IN  IF IsZero(d.q) THEN <<DigitChar[d.r + 1]>>
        ELSE Decimal(d.q) \o <<DigitChar[d.r + 1]>>

RECURSIVE Expand(_, _)
\* the text a format produces: literal pieces copied, %lu converted
Expand(fmt, arg) ==
    IF fmt = <<>> THEN <<>>
    ELSE (IF Head(fmt) = "%lu" THEN Decimal(ULongArg(arg)) ELSE <<Head(fmt)>>)
         \o Expand(Tail(fmt), arg)

RECURSIVE ByteLen(_)
\* the number of characters of a text
ByteLen(text) ==
    IF text = <<>> THEN 0 ELSE Len(Head(text)) + ByteLen(Tail(text))

\* (a variant that rewinds the stream before each write)
EmitOverwrite(stream, text) == text

\* standard output after it has received text
Emit(stream, text) == stream \o text

\* (a variant that returns from main when a call fails)
NextPcAbortOnFailure(line, ok) == IF ok THEN line + 1 ELSE 13

\* the statement that follows the printf call of a line, whatever the call returned
NextPc(line, ok) == line + 1

\* printf(fmt, arg) at a source line: the call either writes the whole text and
\* returns its length, or fails, writes nothing and returns a negative value.
\* main ignores the returned value.
printf(line, fmt, arg) ==
    /\ ~exited
    /\ pc = line
    /\ LET text == Expand(fmt, arg)
       IN  \E ok \in BOOLEAN :
              /\ out' = (IF ok THEN Emit(out, text) ELSE out)
              /\ ret' = (IF ok THEN ByteLen(text) ELSE -1)
              /\ attempts' = Append(attempts, [line |-> line, ok |-> ok])
              /\ pc' = NextPc(line, ok)
    /\ UNCHANGED <<hdr, argv, exited, exitCode, run, prev>>

----------------------------------------------------------------------------
(* main *)

Format6 == <<"KVM_GET_API_VERSION", " = ", "%lu", "\n">>

Format7 == <<"KVM_CREATE_VM", " = ", "%lu", "\n">>

Format8 == <<"KVM_SET_USER_MEMORY_REGION", " = ", "%lu", "\n">>

\* (a variant with the label of line 7 pasted into line 9)
Format9Mislabelled == <<"KVM_CREATE_VM", " = ", "%lu", "\n">>

Format9 == <<"KVM_CREATE_VCPU", " = ", "%lu", "\n">>

Format10 == <<"KVM_GET_VCPU_MMAP_SIZE", " = ", "%lu", "\n">>

Format11 == <<"KVM_GET_SREGS", " = ", "%lu", "\n">>

\* (a variant without the final newline)
Format12NoNewline == <<"KVM_SET_SREGS", " = ", "%lu">>

Format12 == <<"KVM_SET_SREGS", " = ", "%lu", "\n">>

Arg6 == KVM_GET_API_VERSION

\* (a variant that prints the argument count)
Arg7FromArgc == [ctype |-> "unsigned int", hi |-> 0, lo |-> Len(argv)]

Arg7 == KVM_CREATE_VM

Arg8 == KVM_SET_USER_MEMORY_REGION

Arg9 == KVM_CREATE_VCPU

\* (a variant that passes the constant of line 9)
Arg10WrongConstant == KVM_CREATE_VCPU

Arg10 == KVM_GET_VCPU_MMAP_SIZE

Arg11 == KVM_GET_SREGS

Arg12 == KVM_SET_SREGS

FirstLine == 6

LastLine == 12

Line6 == printf(6, Format6, Arg6)

Line7 == printf(7, Format7, Arg7)

Line8 == printf(8, Format8, Arg8)

Line9 == printf(9, Format9, Arg9)

Line10 == printf(10, Format10, Arg10)

Line11 == printf(11, Format11, Arg11)

Line12 == printf(12, Format12, Arg12)

\* main is declared void and ends without a return statement: the termination
\* status is not set by the program.  It is what the build leaves in the result
\* register, the low byte of the last printf's return value, or zero.
ExitStatus(r) == {0, r % 256}

\* the closing brace of main: the process terminates
Return ==
    /\ ~exited
    /\ pc = LastLine + 1
    /\ exited' = TRUE
    /\ exitCode' \in ExitStatus(ret)
    /\ UNCHANGED <<hdr, argv, pc, out, ret, attempts, run, prev>>

main == Line6 \/ Line7 \/ Line8 \/ Line9 \/ Line10 \/ Line11 \/ Line12 \/ Return

----------------------------------------------------------------------------
(* Process start *)

\* command lines: the program name and up to MaxArgs arguments
Argvs == { [i \in 1 .. (n + 1) |-> IF i = 1 THEN "./ioctls" ELSE "arg"] : n \in 0 .. MaxArgs }

NoRun == [out |-> <<>>, attempts |-> <<>>, argv |-> <<>>]

Init ==
    /\ hdr \in Platforms
    /\ argv = <<"./ioctls">>
    /\ pc = FirstLine
    /\ out = <<>>
    /\ ret = 0
    /\ attempts = <<>>
    /\ exited = FALSE
    /\ exitCode = 0
    /\ run = 1
    /\ prev = NoRun

\* the same binary is started again, with any command line
Exec ==
    /\ exited
    /\ run = 1
    /\ run' = run + 1
    /\ prev' = [out |-> out, attempts |-> attempts, argv |-> argv]
    /\ argv' \in Argvs
    /\ pc' = FirstLine
    /\ out' = <<>>
    /\ ret' = 0
    /\ attempts' = <<>>
    /\ exited' = FALSE
    /\ exitCode' = 0
    /\ UNCHANGED hdr

Next == main

NextRerun == main \/ Exec

\* one run of the program
Spec == Init /\ [][Next]_vars

\* one run; a process that is not terminated keeps executing
FairSpec == Spec /\ WF_vars(Next)

\* the program run twice on the same platform
SpecRerun == Init /\ [][NextRerun]_vars

----------------------------------------------------------------------------
(* Vocabulary of the properties *)

\* the fixed list of NAME tokens
FixedNames ==
    <<"KVM_GET_API_VERSION", "KVM_CREATE_VM", "KVM_SET_USER_MEMORY_REGION",
      "KVM_CREATE_VCPU", "KVM_GET_VCPU_MMAP_SIZE", "KVM_GET_SREGS", "KVM_SET_SREGS">>

\* the header constant a NAME names
ConstantNamed(name) ==
    CASE name = "KVM_GET_API_VERSION"        -> KVM_GET_API_VERSION
      [] name = "KVM_CREATE_VM"              -> KVM_CREATE_VM
      [] name = "KVM_SET_USER_MEMORY_REGION" -> KVM_SET_USER_MEMORY_REGION
      [] name = "KVM_CREATE_VCPU"            -> KVM_CREATE_VCPU
      [] name = "KVM_GET_VCPU_MMAP_SIZE"     -> KVM_GET_VCPU_MMAP_SIZE
      [] name = "KVM_GET_SREGS"              -> KVM_GET_SREGS
      [] name = "KVM_SET_SREGS"              -> KVM_SET_SREGS

\* the value of a 32-bit constant as an unsigned 64-bit number
ValueOf(c) == <<0, 0, c.hi, c.lo>>

IsNameToken(t) == t \notin (Digits \cup {" = ", "\n"})

NameTokens(text) == SelectSeq(text, IsNameToken)

IsNewline(t) == t = "\n"

\* index of the first newline of a non-empty text, or its length when it has none
LineEnd(text) ==
    IF \E i \in 1 .. Len(text) : text[i] = "\n"
    THEN CHOOSE i \in 1 .. Len(text) :
            text[i] = "\n" /\ \A j \in 1 .. (i - 1) : text[j] # "\n"
    ELSE Len(text)

RECURSIVE SplitLines(_)
\* the lines of a text, each with its newline; an unterminated rest is a line too
SplitLines(text) ==
    IF text = <<>> THEN <<>>
    ELSE <<SubSeq(text, 1, LineEnd(text))>>
         \o SplitLines(SubSeq(text, LineEnd(text) + 1, Len(text)))

RECURSIVE Flatten(_)
Flatten(texts) == IF texts = <<>> THEN <<>> ELSE Head(texts) \o Flatten(Tail(texts))

DigitValue(ch) == CHOOSE d \in 0 .. 9 : DigitChar[d + 1] = ch

RECURSIVE MulAdd(_, _, _)
\* limbs v times m plus a, keeping Len(v) limbs
MulAdd(v, m, a) ==
    IF v = <<>> THEN <<>>
    ELSE LET n == Len(v)
             t == v[n] * m + a
         IN  MulAdd(SubSeq(v, 1, n - 1), m, t \div Base) \o <<t % Base>>

RECURSIVE ParseDecimal(_)
\* the number a digit string denotes, as four limbs
ParseDecimal(ds) ==
    IF ds = <<>> THEN <<0, 0, 0, 0>>
    ELSE MulAdd(ParseDecimal(SubSeq(ds, 1, Len(ds) - 1)), 10, DigitValue(ds[Len(ds)]))

\* the digits of a line: what stands between " = " and the newline
DigitsOf(l) == SubSeq(l, 3, Len(l) - 1)

IsOk(a) == a.ok

\* no printf call of this run has failed
Clean == \A i \in 1 .. Len(attempts) : attempts[i].ok

PrevClean == \A i \in 1 .. Len(prev.attempts) : prev.attempts[i].ok

\* the NAME of the statement at a source line
NameAt(line) == FixedNames[line - FirstLine + 1]

\* reference: the line of text for a (name, value) pair
RefLine(name) == <<name, " = ">> \o Decimal(ValueOf(ConstantNamed(name))) \o <<"\n">>

\* reference: the text for a sequence of names
RefText(names) == Flatten([i \in 1 .. Len(names) |-> RefLine(names[i])])

\* the names of the statements whose printf succeeded, in call order
NamesWritten ==
    LET done == SelectSeq(attempts, IsOk)
    IN  [i \in 1 .. Len(done) |-> NameAt(done[i].line)]

Position(name) == CHOOSE i \in 1 .. Len(FixedNames) : FixedNames[i] = name

----------------------------------------------------------------------------
(* C1 *)

\* C1 as stated: in every run of main that completes, the NAME tokens of the
\* lines written to standard output are exactly the fixed list, in its order.
C1_AllNamesInEveryCompletedRun ==
    exited => NameTokens(out) = FixedNames

\* C1, amended: in every run of main that completes without a failed write, the
\* NAME tokens written are exactly the fixed list in its order; and in every
\* state of every run the NAME tokens written so far are names of the list in
\* the list's order (line i is never written before line i-1).
C1_NamesInFixedOrder ==
    LET names == NameTokens(out)
    IN  /\ \A i \in 1 .. Len(names) : \E k \in 1 .. Len(FixedNames) : FixedNames[k] = names[i]
        /\ \A i, j \in 1 .. Len(names) : i < j => Position(names[i]) < Position(names[j])
        /\ (exited /\ Clean) => names = FixedNames

C1_Witness ==
    exited /\ Clean /\ Len(NameTokens(out)) = Len(FixedNames)

----------------------------------------------------------------------------
(* C2 *)

\* C2: when main has completed and no write to standard output failed, the
\* output has exactly seven lines, none of them blank, each ended by a newline.
C2_ExactlySevenLines ==
    (exited /\ Clean) =>
        LET ls == SplitLines(out)
        IN  /\ Len(ls) = 7
            /\ Len(SelectSeq(out, IsNewline)) = 7
            /\ \A i \in 1 .. Len(ls) :
                  /\ Len(ls[i]) > 1
                  /\ ls[i][Len(ls[i])] = "\n"
            /\ out[Len(out)] = "\n"

C2_Witness ==
    exited /\ Clean /\ Len(attempts) = 7 /\ out # <<>>

----------------------------------------------------------------------------
(* C3 *)

----------------------------------------------------------------------------
(* C4 *)

\* C4 as stated: every normal run (all seven printf calls made and none
\* failed, main returned) ends with exit code 0.
C4_ExitCodeZero ==
    (exited /\ Clean /\ Len(attempts) = 7) => exitCode = 0

----------------------------------------------------------------------------
(* C5 *)

----------------------------------------------------------------------------
(* C6 *)

\* C6: every run terminates, after exactly seven printf calls, also when
\* calls fail.
C6_Terminates ==
    /\ <>exited
    /\ [](exited => Len(attempts) = 7)

C6_Witness ==
    exited /\ ~Clean /\ Len(attempts) = 7

----------------------------------------------------------------------------
(* C7 *)

\* the statuses a run without a failed write ends with
CleanStatuses == ExitStatus(ByteLen(RefLine(NameAt(LastLine))))

\* the part of C7 about the calls made: the printf calls are those of lines
\* 6, 7, ... in order, each once, a failed one included; a run that has ended
\* has made all seven; the output holds nothing but the lines of the calls that
\* succeeded.
C7_EachPrintAttemptedOnce ==
    /\ \A i \in 1 .. Len(attempts) : attempts[i].line = FirstLine + i - 1
    /\ exited => Len(attempts) = 7
    /\ Len(SplitLines(out)) = Len(SelectSeq(attempts, IsOk))

\* C7 as stated: a failed write is not handled, retried or reported
\* distinctly: every printf is called exactly once and in order, nothing is
\* written for the failure, and the run ends in no state that tells the
\* failure from success.
C7_FailureNotReported ==
    /\ C7_EachPrintAttemptedOnce
    /\ (exited /\ ~Clean) => exitCode \in CleanStatuses

----------------------------------------------------------------------------
(* C8 *)

----------------------------------------------------------------------------
(* C9 *)

\* the output of a run in which every write succeeds
FullOutput == RefText(FixedNames)

IsPrefix(s, t) == Len(s) <= Len(t) /\ s = SubSeq(t, 1, Len(s))

\* C9 as stated: in every reachable state the text written so far is a prefix
\* of the seven-line output made of whole lines.
C9_AlwaysPrefixOfFullOutput ==
    /\ IsPrefix(out, FullOutput)
    /\ (out = <<>> \/ out[Len(out)] = "\n")

\* C9, amended: standard output is append-only and main has no other effect:
\* while no write has failed, the text written so far is the prefix of the
\* seven-line output made of the lines of the calls made so far; a step never
\* changes what was written before, a printf that succeeds appends exactly its
\* one line, and no step changes the seven constants or the command line.
C9_AppendOnly ==
    /\ [](Clean => out = RefText(SubSeq(FixedNames, 1, Len(attempts))))
    /\ [][ /\ IsPrefix(out, out')
           /\ (pc' # pc /\ attempts'[Len(attempts')].ok) => out' = out \o RefLine(NameAt(pc))
           /\ pc' = pc => out' = out
           /\ hdr' = hdr
           /\ argv' = argv
           /\ prev' = prev /\ run' = run ]_vars

C9_Witness ==
    Clean /\ Len(attempts) = 3 /\ Len(SplitLines(out)) = 3

====
